---- MODULE Spec2Model ----
(***************************************************************************)
(* Model of the transaction validator (package validator, accountsdb).     *)
(*                                                                         *)
(* Three goroutines started by Validator.Run share the validator:          *)
(*   - ReceiveTransactions : scores a decoded transaction, sends it on     *)
(*                           txCh (blocking when the channel is full);     *)
(*   - ProcessTransactions : select on txCh / default, batch building,     *)
(*                           CommitBatch, SendBatch;                       *)
(*   - the snapshot loop   : marshals vali.db.Accounts once a second.      *)
(*                                                                         *)
(* Balances and amounts are float64 in the source; the model uses small    *)
(* integers, which float64 represents exactly.  A transaction is referred  *)
(* to by its arrival number (the *Transaction pointer of the source);      *)
(* txs[id] is its decoded content and score.  The heap's per-element       *)
(* `index` field is written by Swap/Push/Pop but never read, and is left   *)
(* out.                                                                    *)
(***************************************************************************)
EXTENDS Integers, Sequences, FiniteSets, TLC

\* ------------------------------------------------------------------ bounds
\* Number of transactions the receiver decodes in one run.
MaxTx == 3
\* Capacity of txCh (256 in the source), scaled down.
ChanCap == 2
\* Capacity of a batch (100 in the source), scaled down.
BatchCap == 2
\* Number of pushes in the stand-alone priority-queue specification.
MaxHeapOps == 4
\* Fee amounts (-MaxFee..MaxFee) and instruction counts (0..MaxInstr) of the
\* stand-alone scoring specification.
MaxFee == 5
MaxInstr == 5

\* --------------------------------------------------------------- ledger
Validator == "validator"

\* The accounts snapshot the validator is started from (all balances >= 0,
\* the validator account present).  "carol" has no entry.
InitAccounts == [a \in {"alice", "bob", Validator} |->
                    IF a = "alice" THEN 2 ELSE IF a = "bob" THEN 1 ELSE 0]

Has(accounts, account) == account \in DOMAIN accounts

\* AccountsDb.GetBalance: (balance, nil) or (0, error).
GetBalance(accounts, account) ==
    IF Has(accounts, account) THEN accounts[account] ELSE 0

\* db.Accounts[account] = value
SetBalance(accounts, account, value) ==
    [a \in (DOMAIN accounts) \cup {account} |->
        IF a = account THEN value ELSE accounts[a]]

\* AccountsDb.Copy
Copy(accounts) == [a \in DOMAIN accounts |-> accounts[a]]

\* AccountsDb.Earn
Earn(accounts, amount) ==
    SetBalance(accounts, Validator, GetBalance(accounts, Validator) + amount)

\* --------------------------------------------------------- transactions
Abs(account, amount) ==
    [account |-> account, kind |-> "abs", amount |-> amount,
     target |-> "", sign |-> ""]
Rel(account, target, sign) ==
    [account |-> account, kind |-> "rel", amount |-> 0,
     target |-> target, sign |-> sign]
Tx(payer, amount, instructions) ==
    [fee |-> [payer |-> payer, amount |-> amount],
     instructions |-> instructions]

\* The messages the receiver may decode.
TxUniverse ==
    { Tx("alice", 1, << Abs("alice", -1), Abs("bob", 1) >>),
      Tx("alice", 0, << Rel("alice", "bob", "plus"), Abs("alice", -1) >>),
      Tx("alice", 0, << Rel("bob", "alice", "minus") >>),
      Tx("bob", 1, << Abs("bob", 1) >>),
      Tx("alice", 1, << Abs("alice", -3), Abs("bob", 3) >>),
      Tx("carol", 1, << >>),
      Tx("alice", 1, << Abs("carol", -1), Abs("bob", 1) >>),
      Tx("alice", 1, << Abs("carol", -1), Abs("alice", -3), Abs("bob", 4) >>),
      Tx("alice", 0, << Rel("alice", "carol", "plus") >>),
      Tx(Validator, 1, << Abs(Validator, -1), Abs("bob", 1) >>) }

\* A halving that rounds down (mutation of CeilHalf).
CeilHalfFloor(x) == x \div 2

\* math.Ceil(x / 2) for an integer x.
CeilHalf(x) == -((-x) \div 2)

\* Transaction.CalcScore
CalcScore(t) == CeilHalf(t.fee.amount * 10 + Len(t.instructions) * (-5))

VARIABLES
    txs,        \* decoded transactions by arrival number: content and prio
    txCh,       \* vali.txCh, arrival numbers in channel order
    txHeap,     \* vali.txHeap, the array of the binary heap
    valiDb,     \* vali.db.Accounts, the authoritative ledger
    batchIdx,   \* vali.batchIdx
    pc,         \* position of ProcessTransactions ("panic": process ended)
    batch,      \* ProcessTransactions: batch being filled / committed
    db,         \* ProcessTransactions: copy db of the pass
    tx,         \* ProcessTransactions: transaction last taken from the heap
    ci,         \* CommitBatch: index of the next transaction to apply
    sent,       \* batches handed to SendBatch, in order
    fate,       \* what the processing loop last decided for each transaction
    preDb,      \* the authoritative ledger when the current pass began
    charged,    \* sum of the fees charged in the current pass
    passResult, \* how the last finished pass ended
    snap        \* last image written by the snapshot loop

vars == << txs, txCh, txHeap, valiDb, batchIdx, pc, batch, db, tx, ci,
           sent, fate, preDb, charged, passResult, snap >>

\* ------------------------------------------------------ TransactionHeap
\* Indices are 0-based as in the source; h[i + 1] is heap[i].  An element
\* is the arrival number of the transaction together with its prio field.
\* A comparison that orders the lowest prio first (mutation of Less).
LessLowestFirst(h, i, j) == h[i + 1].prio < h[j + 1].prio

\* TransactionHeap.Less
Less(h, i, j) == h[i + 1].prio > h[j + 1].prio

\* TransactionHeap.Swap
Swap(h, i, j) ==
    [k \in 1..Len(h) |-> IF k = i + 1 THEN h[j + 1]
                         ELSE IF k = j + 1 THEN h[i + 1] ELSE h[k]]

\* container/heap up
RECURSIVE up(_, _)
up(h, j) ==
    LET i == (j - 1) \div 2 IN
    IF j = 0 \/ i = j \/ ~Less(h, j, i) THEN h
    ELSE up(Swap(h, i, j), i)

\* container/heap down, on the first n elements
RECURSIVE down(_, _, _)
down(h, i, n) ==
    LET j1 == 2 * i + 1 IN
    IF j1 >= n THEN h
    ELSE LET j2 == j1 + 1
             j  == IF j2 < n /\ Less(h, j2, j1) THEN j2 ELSE j1
         IN IF ~Less(h, j, i) THEN h
            ELSE down(Swap(h, i, j), j, n)

\* Validator.PushTransaction: heap.Push = TransactionHeap.Push, then up
PushTransaction(h, item) == up(Append(h, item), Len(h))

\* Validator.NextTransaction: heap.Pop = Swap(0, n), down(0, n),
\* TransactionHeap.Pop; the transaction and the heap that is left
NextTransaction(h) ==
    LET n == Len(h) - 1
        g == down(Swap(h, 0, n), 0, n)
    IN [tx |-> g[n + 1], heap |-> SubSeq(g, 1, n)]

\* -------------------------------------------------------- isCommutative
\* changes[account] = old + delta when the entry exists, else `fresh`
\* (the two branches of the if ok / else at lines 243-248 and 274-279).
PutChange(changes, account, delta, fresh) ==
    IF account \in DOMAIN changes
    THEN [changes EXCEPT ![account] = changes[account] + delta]
    ELSE [a \in (DOMAIN changes) \cup {account} |->
             IF a = account THEN fresh ELSE changes[a]]

\* The entry a RelativeTransfer minus creates for an account that has none.
MinusFresh(targetBalance) == targetBalance

\* The instruction loop of isCommutative from instruction i on; acc holds
\* the running sum and the changes map.  RelativeTransfer targets are read
\* from the validator's db (accounts), not from the copy db.
RECURSIVE SimInstructions(_, _, _, _)
SimInstructions(instructions, i, acc, accounts) ==
    IF i > Len(instructions) THEN acc
    ELSE
      LET instr == instructions[i] IN
      IF instr.kind = "abs" THEN
        LET change == instr.amount
            sum    == acc.sum + change
        IN IF change > 0
           THEN SimInstructions(instructions, i + 1,
                    [sum |-> sum, changes |-> acc.changes], accounts)
           ELSE SimInstructions(instructions, i + 1,
                    [sum |-> sum,
                     changes |-> PutChange(acc.changes, instr.account,
                                           change, change)], accounts)
      ELSE
        LET targetBalance == GetBalance(accounts, instr.target) IN
        IF instr.sign = "plus"
        THEN SimInstructions(instructions, i + 1,
                 [sum |-> acc.sum + targetBalance, changes |-> acc.changes],
                 accounts)
        ELSE SimInstructions(instructions, i + 1,
                 [sum |-> acc.sum,
                  changes |-> PutChange(acc.changes, instr.account,
                                        -targetBalance,
                                        MinusFresh(targetBalance))],
                 accounts)

\* isCommutative panics when a RelativeTransfer target has no entry in the
\* validator's db (every instruction is visited before any return).
TargetMissing(t, accounts) ==
    \E i \in 1..Len(t.instructions) :
        /\ t.instructions[i].kind = "rel"
        /\ ~Has(accounts, t.instructions[i].target)

\* sum and changes map of a transaction (lines 229-287).
Simulate(t, accounts) ==
    SimInstructions(t.instructions, 1,
        [sum |-> 0,
         changes |-> [a \in {t.fee.payer} |-> -t.fee.amount]],
        accounts)

\* The final loop of isCommutative: entries whose account is missing from
\* the copy db were deleted from the map, the others are added to it.
ApplyChanges(copy, changes) ==
    [a \in DOMAIN copy |->
        IF a \in DOMAIN changes THEN copy[a] + changes[a] ELSE copy[a]]

\* An isCommutative that writes the changes to the copy db before it tests
\* them (mutation of isCommutative).
isCommutativeEager(t, copy, accounts) ==
    LET sim     == Simulate(t, accounts)
        changes == sim.changes
        written == ApplyChanges(copy, changes)
        errs  == { a \in DOMAIN changes : ~Has(copy, a) /\ changes[a] < 0 }
        negs  == { a \in DOMAIN changes :
                     Has(copy, a) /\ copy[a] + changes[a] < 0 }
    IN IF sim.sum # 0
         THEN { [ok |-> TRUE, err |-> "instruction sum is non-zero",
                 db |-> written] }
       ELSE IF errs = {} /\ negs = {}
         THEN { [ok |-> TRUE, err |-> "nil", db |-> written] }
       ELSE { [ok |-> TRUE,
               err |-> "operation causes balance to go negative",
               db |-> written] : a \in errs }
            \cup { [ok |-> FALSE, err |-> "nil", db |-> written] : a \in negs }

\* An isCommutative that defers a transaction with a negative change for a
\* missing account instead of failing it (mutation of isCommutative).
isCommutativeDefersMissing(t, copy, accounts) ==
    LET sim     == Simulate(t, accounts)
        changes == sim.changes
        errs  == { a \in DOMAIN changes : ~Has(copy, a) /\ changes[a] < 0 }
        negs  == { a \in DOMAIN changes :
                     Has(copy, a) /\ copy[a] + changes[a] < 0 }
    IN IF sim.sum # 0
         THEN { [ok |-> TRUE, err |-> "instruction sum is non-zero",
                 db |-> copy] }
       ELSE IF errs = {} /\ negs = {}
         THEN { [ok |-> TRUE, err |-> "nil",
                 db |-> ApplyChanges(copy, changes)] }
       ELSE { [ok |-> FALSE, err |-> "nil", db |-> copy] }

\* An isCommutative without the test of the instruction sum (mutation of
\* isCommutative).
isCommutativeNoSumCheck(t, copy, accounts) ==
    LET sim     == Simulate(t, accounts)
        changes == sim.changes
        errs  == { a \in DOMAIN changes : ~Has(copy, a) /\ changes[a] < 0 }
        negs  == { a \in DOMAIN changes :
                     Has(copy, a) /\ copy[a] + changes[a] < 0 }
    IN IF errs = {} /\ negs = {}
         THEN { [ok |-> TRUE, err |-> "nil",
                 db |-> ApplyChanges(copy, changes)] }
       ELSE { [ok |-> TRUE,
               err |-> "operation causes balance to go negative",
               db |-> copy] : a \in errs }
            \cup { [ok |-> FALSE, err |-> "nil", db |-> copy] : a \in negs }

\* isCommutative(tx, db) with vali.db = accounts: the set of results
\* (ok, err, copy db after the call) it can return.  The test loop ranges
\* over a Go map, whose iteration order is not fixed: when one entry would
\* return the error and another would return false, either may come first.
isCommutative(t, copy, accounts) ==
    LET sim     == Simulate(t, accounts)
        changes == sim.changes
        errs  == { a \in DOMAIN changes : ~Has(copy, a) /\ changes[a] < 0 }
        negs  == { a \in DOMAIN changes :
                     Has(copy, a) /\ copy[a] + changes[a] < 0 }
    IN IF sim.sum # 0
         THEN { [ok |-> TRUE, err |-> "instruction sum is non-zero",
                 db |-> copy] }
       ELSE IF errs = {} /\ negs = {}
         THEN { [ok |-> TRUE, err |-> "nil",
                 db |-> ApplyChanges(copy, changes)] }
       ELSE { [ok |-> TRUE,
               err |-> "operation causes balance to go negative",
               db |-> copy] : a \in errs }
            \cup { [ok |-> FALSE, err |-> "nil", db |-> copy] : a \in negs }

\* ---------------------------------------------------------- CommitBatch
\* The fee block of CommitBatch (lines 150-156).
CommitFee(accounts, t) ==
    LET balance    == GetBalance(accounts, t.fee.payer)
        newBalance == balance - t.fee.amount
    IN SetBalance(Earn(accounts, t.fee.amount), t.fee.payer, newBalance)

\* The balance CommitBatch resolves for a RelativeTransfer target; live is
\* vali.db as it is when the instruction is applied.
CommitTarget(live, target) == GetBalance(live, target)

\* The instruction loop of CommitBatch from instruction i on.
RECURSIVE CommitInstructions(_, _, _)
CommitInstructions(accounts, instructions, i) ==
    IF i > Len(instructions) THEN accounts
    ELSE
      LET instr   == instructions[i]
          balance == GetBalance(accounts, instr.account)
          delta   == IF instr.kind = "abs" THEN instr.amount
                     ELSE IF instr.sign = "plus"
                          THEN CommitTarget(accounts, instr.target)
                          ELSE -CommitTarget(accounts, instr.target)
      IN CommitInstructions(
             SetBalance(accounts, instr.account, balance + delta),
             instructions, i + 1)

\* One iteration of the range loop of CommitBatch.
CommitTx(accounts, t) ==
    CommitInstructions(CommitFee(accounts, t), t.instructions, 1)

\* CommitBatch applied to the transactions b[i..Len(b)] (arrival numbers).
RECURSIVE CommitFrom(_, _, _)
CommitFrom(accounts, b, i) ==
    IF i > Len(b) THEN accounts
    ELSE CommitFrom(CommitTx(accounts, txs[b[i]]), b, i + 1)

\* ------------------------------------------------------------ actions
Init ==
    /\ txs = << >>
    /\ txCh = << >>
    /\ txHeap = << >>
    /\ valiDb = InitAccounts
    /\ batchIdx = 0
    /\ pc = "select"
    /\ batch = << >>
    /\ db = InitAccounts
    /\ tx = 0
    /\ ci = 0
    /\ sent = << >>
    /\ fate = << >>
    /\ preDb = InitAccounts
    /\ charged = 0
    /\ passResult = "none"
    /\ snap = [taken |-> FALSE, img |-> InitAccounts,
               pre |-> InitAccounts, post |-> InitAccounts]

\* ReceiveTransactions: one iteration that decodes message t, scores it and
\* sends it on txCh; the send blocks while the channel is full.
ReceiveTransactions(t) ==
    /\ pc # "panic"
    /\ Len(txs) < MaxTx
    /\ Len(txCh) < ChanCap
    /\ txs' = Append(txs, [fee |-> t.fee, instructions |-> t.instructions,
                           prio |-> CalcScore(t)])
    /\ txCh' = Append(txCh, Len(txs) + 1)
    /\ fate' = Append(fate, "chan")
    /\ UNCHANGED << txHeap, valiDb, batchIdx, pc, batch, db, tx, ci, sent,
                    preDb, charged, passResult, snap >>

\* ProcessTransactions, select: case tx := <-vali.txCh
SelectReceive ==
    /\ pc = "select"
    /\ txCh # << >>
    /\ LET id == Head(txCh) IN
        /\ txHeap' = PushTransaction(txHeap,
                                     [id |-> id, prio |-> txs[id].prio])
        /\ fate' = [fate EXCEPT ![id] = "heap"]
    /\ txCh' = Tail(txCh)
    /\ UNCHANGED << txs, valiDb, batchIdx, pc, batch, db, tx, ci, sent,
                    preDb, charged, passResult, snap >>

\* ProcessTransactions, select: default with a non-empty heap; a new batch
\* and a copy of the db.  (With an empty heap the default case breaks out
\* of the select and changes nothing.)
SelectDefault ==
    /\ pc = "select"
    /\ txCh = << >>
    /\ Len(txHeap) # 0
    /\ batch' = << >>
    /\ db' = Copy(valiDb)
    /\ pc' = "loop"
    /\ tx' = 0
    /\ preDb' = valiDb
    /\ charged' = 0
    /\ passResult' = "none"
    /\ UNCHANGED << txs, txCh, txHeap, valiDb, batchIdx, ci, sent, fate,
                    snap >>

\* A batch that takes the transaction at its front (mutation of
\* AppendBatch).
AppendBatchFront(b, id) == << id >> \o b

\* A batch that never takes the transaction (mutation of AppendBatch).
AppendBatchLost(b, id) == b

\* batch = append(batch, tx)
AppendBatch(b, id) == Append(b, id)

\* A loop condition that is off by one (mutation of BatchOpen).
BatchOpenOffByOne(b, h) == Len(b) <= BatchCap /\ Len(h) > 0

\* The condition of the batch-filling loop (line 351).
BatchOpen(b, h) == Len(b) < BatchCap /\ Len(h) > 0

\* A fee test that only looks for the payer's entry (mutation of
\* CannotPay).
CannotPayMissingOnly(copy, t) == ~Has(copy, t.fee.payer)

\* The payer of t cannot pay the fee from the copy db (line 357).
CannotPay(copy, t) ==
    ~Has(copy, t.fee.payer) \/ copy[t.fee.payer] - t.fee.amount < 0

\* ProcessTransactions: one iteration of the batch-filling loop, up to the
\* requeueing send.
LoopBody ==
    /\ pc = "loop"
    /\ BatchOpen(batch, txHeap)
    /\ LET next == NextTransaction(txHeap)
           id   == next.tx.id
           t    == txs[id]
       IN
        /\ txHeap' = next.heap
        /\ tx' = id
        /\ IF CannotPay(db, t) THEN
              /\ fate' = [fate EXCEPT ![id] = "unpaid"]
              /\ UNCHANGED << pc, batch, db, charged >>
           ELSE IF TargetMissing(t, valiDb) THEN
              /\ pc' = "panic"
              /\ fate' = [fate EXCEPT ![id] = "panic"]
              /\ UNCHANGED << batch, db, charged >>
           ELSE \E r \in isCommutative(t, db, valiDb) :
              IF r.err # "nil" THEN
                 /\ db' = IF r.ok THEN Earn(r.db, t.fee.amount) ELSE r.db
                 /\ charged' = IF r.ok THEN charged + t.fee.amount
                               ELSE charged
                 /\ fate' = [fate EXCEPT ![id] =
                               IF r.err = "instruction sum is non-zero"
                               THEN "invalid" ELSE "failed"]
                 /\ UNCHANGED << pc, batch >>
              ELSE IF ~r.ok THEN
                 /\ pc' = "send"
                 /\ db' = r.db
                 /\ fate' = [fate EXCEPT ![id] = "deferred"]
                 /\ UNCHANGED << batch, charged >>
              ELSE
                 /\ batch' = AppendBatch(batch, id)
                 /\ db' = r.db
                 /\ charged' = charged + t.fee.amount
                 /\ fate' = [fate EXCEPT ![id] = "batch"]
                 /\ UNCHANGED pc
    /\ UNCHANGED << txs, txCh, valiDb, batchIdx, ci, sent, preDb,
                    passResult, snap >>

\* A requeue that pushes the transaction back onto the heap (mutation of
\* Requeue).
RequeueToHeap ==
    /\ pc = "send"
    /\ txHeap' = PushTransaction(txHeap, [id |-> tx, prio |-> txs[tx].prio])
    /\ fate' = [fate EXCEPT ![tx] = "heap"]
    /\ pc' = "loop"
    /\ UNCHANGED << txs, txCh, valiDb, batchIdx, batch, db, tx, ci, sent,
                    preDb, charged, passResult, snap >>

\* ProcessTransactions: vali.txCh <- tx of a transaction that is not
\* commutative; blocks while the channel is full.
Requeue ==
    /\ pc = "send"
    /\ Len(txCh) < ChanCap
    /\ txCh' = Append(txCh, tx)
    /\ fate' = [fate EXCEPT ![tx] = "chan"]
    /\ pc' = "loop"
    /\ UNCHANGED << txs, txHeap, valiDb, batchIdx, batch, db, tx, ci, sent,
                    preDb, charged, passResult, snap >>

\* ProcessTransactions: the batch-filling loop ends; an empty batch ends
\* the pass, any other is handed to CommitBatch.
LoopExit ==
    /\ pc = "loop"
    /\ ~BatchOpen(batch, txHeap)
    /\ IF Len(batch) = 0
       THEN /\ pc' = "select"
            /\ passResult' = "empty"
            /\ ci' = ci
       ELSE /\ pc' = "commit"
            /\ ci' = 1
            /\ passResult' = passResult
    /\ UNCHANGED << txs, txCh, txHeap, valiDb, batchIdx, batch, db, tx,
                    sent, fate, preDb, charged, snap >>

\* CommitBatch: one iteration of its range loop; after the last one
\* batchIdx is incremented and the batch goes to SendBatch.  The panics of
\* CommitBatch need a RelativeTransfer target without an entry in vali.db;
\* isCommutative has found every target of an admitted transaction there
\* and no entry is ever removed (CommitNeverPanics).
CommitBatch ==
    /\ pc = "commit"
    /\ ci <= Len(batch)
    /\ valiDb' = CommitTx(valiDb, txs[batch[ci]])
    /\ IF ci < Len(batch)
       THEN /\ ci' = ci + 1
            /\ UNCHANGED << batchIdx, sent, pc, passResult, fate >>
       ELSE /\ ci' = 0
            /\ batchIdx' = batchIdx + 1
            /\ sent' = Append(sent, batch)
            /\ fate' = [id \in DOMAIN fate |->
                          IF \E k \in 1..Len(batch) : batch[k] = id
                          THEN "sent" ELSE fate[id]]
            /\ passResult' = "committed"
            /\ pc' = "select"
    /\ UNCHANGED << txs, txCh, txHeap, batch, db, tx, preDb, charged, snap >>

\* The snapshot loop of Run: json.Marshal(vali.db.Accounts), with no
\* synchronisation with CommitBatch.  The image is recorded together with
\* the ledger before and after the commit that is in progress, if any.
\* Inside a commit the read races with the map writes of CommitBatch: the
\* Go runtime either lets the iteration go on (the image is the map as it
\* is) or stops the process with "concurrent map iteration and map write".
Snapshot ==
    /\ pc # "panic"
    /\ \/ /\ snap' = [taken |-> TRUE, img |-> valiDb,
                      pre  |-> IF pc = "commit" THEN preDb ELSE valiDb,
                      post |-> IF pc = "commit"
                               THEN CommitFrom(valiDb, batch, ci)
                               ELSE valiDb]
          /\ pc' = pc
       \/ /\ pc = "commit"
          /\ pc' = "panic"
          /\ snap' = snap
    /\ UNCHANGED << txs, txCh, txHeap, valiDb, batchIdx, batch, db, tx,
                    ci, sent, fate, preDb, charged, passResult >>

\* Every RelativeTransfer target of a batch in CommitBatch has an entry.
CommitNeverPanics ==
    pc = "commit" =>
        \A k \in 1..Len(batch) : ~TargetMissing(txs[batch[k]], valiDb)

Next ==
    \/ \E t \in TxUniverse : ReceiveTransactions(t)
    \/ SelectReceive
    \/ SelectDefault
    \/ LoopBody
    \/ Requeue
    \/ LoopExit
    \/ CommitBatch
    \/ Snapshot

Spec == Init /\ [][Next]_vars

\* The steps of the ProcessTransactions goroutine.  The Go scheduler keeps
\* running a goroutine that can take a step; the receiver depends on
\* messages arriving and gets no fairness.
Process ==
    SelectReceive \/ SelectDefault \/ LoopBody \/ Requeue \/ LoopExit
        \/ CommitBatch

FairSpec == Spec /\ WF_vars(Process)

\* ------------------------------------- the priority queue on its own
\* PushTransaction of a freshly scored transaction, at any time.
HeapPush(t) ==
    /\ Len(txs) < MaxHeapOps
    /\ txs' = Append(txs, [fee |-> t.fee, instructions |-> t.instructions,
                           prio |-> CalcScore(t)])
    /\ fate' = Append(fate, "heap")
    /\ txHeap' = PushTransaction(txHeap,
                                 [id |-> Len(txs) + 1, prio |-> CalcScore(t)])
    /\ UNCHANGED << txCh, valiDb, batchIdx, pc, batch, db, tx, ci, sent,
                    preDb, charged, passResult, snap >>

\* NextTransaction on a non-empty queue, at any time.
HeapPop ==
    /\ Len(txHeap) > 0
    /\ LET next == NextTransaction(txHeap) IN
        /\ txHeap' = next.heap
        /\ tx' = next.tx.id
        /\ fate' = [fate EXCEPT ![next.tx.id] = "popped"]
    /\ UNCHANGED << txs, txCh, valiDb, batchIdx, pc, batch, db, ci, sent,
                    preDb, charged, passResult, snap >>

\* Messages of TxUniverse that between them have every score occurring in
\* it (5, 3, 0, -2, -5); equal scores also come from pushing a message
\* again.
HeapPool == { t \in TxUniverse : Len(t.instructions) <= 1
                                   \/ t.instructions[1].kind = "rel"
                                   \/ t.fee.payer = Validator }

HeapNext == (\E t \in HeapPool : HeapPush(t)) \/ HeapPop

HeapSpec == Init /\ [][HeapNext]_vars

\* ---------------------------------------------------- scoring on its own
\* ReceiveTransactions' tx.prio = tx.CalcScore() for a transaction with fee
\* amount f and n instructions, each equal to instr.
ScoreTx(f, n, instr) ==
    /\ txs' = << [fee |-> [payer |-> "alice", amount |-> f],
                  instructions |-> [k \in 1..n |-> instr],
                  prio |-> CalcScore(Tx("alice", f, [k \in 1..n |-> instr])) ] >>
    /\ UNCHANGED << txCh, txHeap, valiDb, batchIdx, pc, batch, db, tx, ci,
                    sent, fate, preDb, charged, passResult, snap >>

ScoreNext ==
    \E f \in (-MaxFee)..MaxFee, n \in 0..MaxInstr,
       instr \in { Abs("alice", -1), Rel("bob", "alice", "plus") } :
        ScoreTx(f, n, instr)

ScoreSpec == Init /\ [][ScoreNext]_vars

\* ------------------------------------------------------------- claims
Count(seq, e) == Cardinality({ k \in 1..Len(seq) : seq[k] = e })

InSeq(seq, e) == \E k \in 1..Len(seq) : seq[k] = e

\* Number of places of the committed batches that hold transaction id.
RECURSIVE CountSent(_, _)
CountSent(k, id) ==
    IF k = 0 THEN 0 ELSE Count(sent[k], id) + CountSent(k - 1, id)

BatchOrders(n) ==
    { p \in [1..n -> 1..n] : \A i, j \in 1..n : p[i] = p[j] => i = j }

\* C1: between passes every balance of the authoritative ledger is >= 0.
C1_NonNegativity ==
    pc = "select" => \A a \in DOMAIN valiDb : valiDb[a] >= 0

\* C2: when CommitBatch is about to apply a batch, applying the batch in
\* any permutation from the same ledger gives the ledger the actual order
\* gives.
C2_Commutativity ==
    (pc = "commit" /\ ci = 1) =>
        \A p \in BatchOrders(Len(batch)) :
            CommitFrom(valiDb, [k \in 1..Len(batch) |-> batch[p[k]]], 1)
                = CommitFrom(valiDb, batch, 1)

\* C3: once CommitBatch has finished for the batch of a pass, every account
\* of the authoritative ledger has the balance it has in the copy db of
\* that pass.
C3_SimulationEqualsCommit ==
    (pc = "select" /\ passResult = "committed") =>
        \A a \in DOMAIN valiDb : Has(db, a) /\ db[a] = valiDb[a]

\* C4: over a finished pass the validator account of the authoritative
\* ledger has grown by exactly the fees charged in the pass (admitted
\* transactions and forfeited fees).
C4_FeeConservation ==
    (pc = "select" /\ passResult # "none") =>
        valiDb[Validator] - preDb[Validator] = charged

C6_DeferredRequeued ==
    (pc = "send") ~> (pc # "send" /\ InSeq(txCh, tx))

\* C7: whenever the processing loop is at the requeueing send, the channel
\* has a free slot (the loop is the only consumer of the channel, so a send
\* on a full channel never completes).
C7_RequeueNeverBlocks ==
    pc = "send" => Len(txCh) < ChanCap

\* C8: a batch handed to CommitBatch and SendBatch holds between 1 and
\* BatchCap transactions; a pass that ends with an empty batch goes back to
\* the select and changes neither the ledger, the batch counter nor what was
\* dispatched, all of which change only while a non-empty batch is
\* committed.
C8_BatchBound ==
    /\ [](pc = "commit" => (Len(batch) >= 1 /\ Len(batch) <= BatchCap))
    /\ [](\A k \in 1..Len(sent) :
              Len(sent[k]) >= 1 /\ Len(sent[k]) <= BatchCap)
    /\ [][(pc = "loop" /\ pc' \notin {"loop", "send", "panic"}
              /\ Len(batch) = 0)
            => (pc' = "select" /\ valiDb' = valiDb
                  /\ batchIdx' = batchIdx /\ sent' = sent)]_vars
    /\ [][(valiDb' # valiDb \/ batchIdx' # batchIdx \/ sent' # sent)
            => (pc = "commit" /\ Len(batch) >= 1)]_vars

C8_Witness ==
    /\ pc = "select" /\ passResult = "empty"
    /\ \E k \in 1..Len(sent) : Len(sent[k]) = BatchCap

\* C9: every image the snapshot loop has serialized is the authoritative
\* ledger as it stood before or after the CommitBatch that was running, if
\* one was.
C9_SnapshotConsistent ==
    snap.taken => (snap.img = snap.pre \/ snap.img = snap.post)

\* C10: NextTransaction on a non-empty queue removes exactly one
\* transaction, whose prio is >= the prio of every transaction left, and
\* leaves the other contents of the queue as they were.
C10_ExtractMax ==
    [][Len(txHeap') < Len(txHeap) =>
        /\ Len(txHeap') = Len(txHeap) - 1
        /\ \E k \in 1..Len(txHeap) :
              /\ txHeap[k].id = tx'
              /\ \A m \in 1..Len(txHeap') : txHeap[k].prio >= txHeap'[m].prio
              /\ \A e \in { txHeap[m] : m \in 1..Len(txHeap) } :
                    Count(txHeap', e) =
                        Count(txHeap, e) - (IF e = txHeap[k] THEN 1 ELSE 0)
        /\ \A m \in 1..Len(txHeap') : InSeq(txHeap, txHeap'[m])]_vars

C10_Witness ==
    /\ tx # 0
    /\ Len(txHeap) = 3
    /\ \E m \in 1..Len(txHeap) : txHeap[m].prio < txs[tx].prio
    /\ \E m \in 1..Len(txHeap) : txHeap[m].prio = txs[tx].prio

NextTx == txs[NextTransaction(txHeap).tx.id]

\* The next step of the processing loop is an iteration of the
\* batch-filling loop that calls isCommutative, and the call returns.
Calling ==
    /\ pc = "loop"
    /\ BatchOpen(batch, txHeap)
    /\ ~(~Has(db, NextTx.fee.payer)
           \/ db[NextTx.fee.payer] - NextTx.fee.amount < 0)
    /\ ~TargetMissing(NextTx, valiDb)

\* C12: every result of isCommutative other than (true, nil) carries the
\* copy db exactly as it was passed in, and the iteration of the
\* batch-filling loop that calls isCommutative leaves the validator's db as
\* it is.
C12_SimulationFrame ==
    /\ [](Calling =>
            \A r \in isCommutative(NextTx, db, valiDb) :
                (r.ok /\ r.err = "nil") \/ r.db = db)
    /\ [][pc = "loop" => valiDb' = valiDb]_vars

C12_Witness ==
    /\ pc = "send"
    /\ db # preDb
    /\ \E a \in (DOMAIN db) \cap (DOMAIN Simulate(txs[tx], valiDb).changes) :
          db[a] + Simulate(txs[tx], valiDb).changes[a] < 0

\* The changes map of t holds a negative change for an account that has no
\* entry in the copy db.
MissingNegative(t) ==
    \E a \in DOMAIN Simulate(t, valiDb).changes :
        ~Has(db, a) /\ Simulate(t, valiDb).changes[a] < 0

\* The changes map of t would take an account of the copy db below zero.
Overdraws(t) ==
    \E a \in DOMAIN Simulate(t, valiDb).changes :
        Has(db, a) /\ db[a] + Simulate(t, valiDb).changes[a] < 0

\* The step is an iteration of the batch-filling loop.
Iteration == pc = "loop" /\ Len(txHeap') < Len(txHeap)

\* C13 as stated: a transaction that passes the fee check and the zero-sum
\* check and has a negative change for an account missing from the copy db
\* is deferred (it goes to the requeueing send) with the copy db unchanged.
C13_MissingAccountDeferred ==
    [][(Iteration /\ Calling /\ Simulate(NextTx, valiDb).sum = 0
          /\ MissingNegative(NextTx))
        => (pc' = "send" /\ db' = db)]_vars

\* C13 as amended: such a transaction, when none of its changes overdraws an
\* account the copy db has, is failed: it is neither added to the batch nor
\* sent to the channel, the loop goes on, and the copy db changes by the fee
\* credited to the validator account; a failed transaction is never on the
\* channel, in the heap or in a batch again.
C13_MissingAccountFailed ==
    /\ [][(Iteration /\ Calling /\ Simulate(NextTx, valiDb).sum = 0
             /\ MissingNegative(NextTx) /\ ~Overdraws(NextTx))
           => (/\ pc' = "loop"
               /\ fate'[tx'] = "failed"
               /\ batch' = batch
               /\ txCh' = txCh
               /\ db' = Earn(db, NextTx.fee.amount))]_vars
    /\ [](\A id \in DOMAIN fate :
            fate[id] = "failed" =>
               /\ ~InSeq(txCh, id)
               /\ ~InSeq(batch, id)
               /\ CountSent(Len(sent), id) = 0
               /\ \A k \in 1..Len(txHeap) : txHeap[k].id # id)

C13_Witness ==
    /\ pc = "loop"
    /\ tx # 0
    /\ fate[tx] = "failed"
    /\ db[Validator] = preDb[Validator] + 1
    /\ ~Has(db, "carol")

\* The entry the claim gives account a in the changes map of t: minus the
\* fee for the payer, plus every AbsoluteDelta that is not positive, minus
\* the balance the authoritative ledger has for the target of every
\* RelativeTransfer minus.
RECURSIVE ClaimedChange(_, _, _)
ClaimedChange(t, a, i) ==
    IF i = 0 THEN (IF a = t.fee.payer THEN -t.fee.amount ELSE 0)
    ELSE LET instr == t.instructions[i] IN
         ClaimedChange(t, a, i - 1)
           + (IF instr.account # a THEN 0
              ELSE IF instr.kind = "abs"
                   THEN (IF instr.amount > 0 THEN 0 ELSE instr.amount)
              ELSE IF instr.sign = "minus"
                   THEN -GetBalance(valiDb, instr.target)
              ELSE 0)

\* C14: at every call of isCommutative, each entry of the changes map is the
\* claimed one; in particular a RelativeTransfer minus subtracts the
\* target's balance in the authoritative ledger, whether or not the account
\* had an entry.
C14_RelativeMinus ==
    Calling =>
        \A a \in DOMAIN Simulate(NextTx, valiDb).changes :
            Simulate(NextTx, valiDb).changes[a]
                = ClaimedChange(NextTx, a, Len(NextTx.instructions))

\* C15: while CommitBatch applies a batch, every RelativeTransfer of the
\* transaction it applies next resolves its target to the balance the
\* authoritative ledger had before the commit of the batch began.
C15_CommitReadsPreBatch ==
    pc = "commit" =>
        LET t == txs[batch[ci]] IN
        \A i \in 1..Len(t.instructions) :
            t.instructions[i].kind = "rel" =>
                CommitTarget(
                    CommitInstructions(CommitFee(valiDb, t),
                                       SubSeq(t.instructions, 1, i - 1), 1),
                    t.instructions[i].target)
                  = GetBalance(preDb, t.instructions[i].target)

\* The places a transaction can be on its way to a batch.
Pending(id) ==
    \/ InSeq(txCh, id)
    \/ InSeq(batch, id)
    \/ \E k \in 1..Len(txHeap) : txHeap[k].id = id

\* A transaction that is in none of the places above and in no batch that
\* was sent.
Gone(id) == ~Pending(id) /\ CountSent(Len(sent), id) = 0

\* The fee payer of t has no entry in the working snapshot, or its balance
\* there is smaller than the fee amount.
Unaffordable(t) ==
    \/ t.fee.payer \notin DOMAIN db
    \/ db[t.fee.payer] < t.fee.amount

\* C16: an extracted transaction whose fee is unaffordable against the
\* copy db is dropped for good: the loop goes on with the batch, the
\* channel, the copy db and the ledger unchanged, and the transaction is
\* never again in the channel, the queue or a batch.
C16_UnaffordableDropped ==
    /\ [][(Iteration /\ Unaffordable(NextTx))
            => /\ pc' = "loop" /\ fate'[tx'] = "unpaid"
               /\ batch' = batch /\ txCh' = txCh
               /\ db' = db /\ valiDb' = valiDb]_vars
    /\ [](\A id \in DOMAIN fate : fate[id] = "unpaid" => Gone(id))
    /\ [][\A id \in DOMAIN fate :
            fate[id] = "unpaid" => fate'[id] = "unpaid"]_vars

\* C16 witness: a payer with an entry but too small a balance was dropped,
\* after an earlier transaction of the pass had been admitted.
C16_Witness ==
    /\ pc = "loop" /\ tx # 0 /\ fate[tx] = "unpaid"
    /\ Has(db, txs[tx].fee.payer)
    /\ txs[tx].fee.payer # Validator
    /\ Len(batch) > 0

\* The instruction sum of the claim: the signed AbsoluteDelta amounts plus
\* the balances the ledger has for the targets of RelativeTransfer plus.
RECURSIVE InstructionSum(_, _)
InstructionSum(instructions, i) ==
    IF i = 0 THEN 0
    ELSE InstructionSum(instructions, i - 1)
           + (IF instructions[i].kind = "abs" THEN instructions[i].amount
              ELSE IF instructions[i].sign = "plus"
                   THEN GetBalance(valiDb, instructions[i].target)
              ELSE 0)

\* The call of isCommutative for the next transaction finds a sum that is
\* not 0.
NonZeroSum ==
    /\ Iteration /\ Calling
    /\ InstructionSum(NextTx.instructions, Len(NextTx.instructions)) # 0

\* C17: a transaction whose instruction sum is not 0 is neither admitted
\* nor requeued; the loop goes on, no instruction is applied to the copy db
\* (it only earns the fee) or to the ledger, and the transaction is never
\* again in the channel, the queue or a batch.
C17_NonZeroSumDropped ==
    /\ [][NonZeroSum
            => /\ pc' = "loop" /\ fate'[tx'] = "invalid"
               /\ batch' = batch /\ txCh' = txCh
               /\ db' = Earn(db, NextTx.fee.amount)
               /\ valiDb' = valiDb]_vars
    /\ [](\A id \in DOMAIN fate : fate[id] = "invalid" => Gone(id))
    /\ [][\A id \in DOMAIN fate :
            fate[id] = "invalid" => fate'[id] = "invalid"]_vars

\* C17 witness: a transaction with a RelativeTransfer plus was dropped for
\* its sum and a later batch has been committed without it.
C17_Witness ==
    \E id \in DOMAIN fate :
        /\ fate[id] = "invalid"
        /\ \E i \in 1..Len(txs[id].instructions) :
              txs[id].instructions[i].kind = "rel"
        /\ Len(sent) > 0

\* C18: when a transaction is dropped for a non-zero sum, the copy db's
\* payer balance decreases by the fee amount and its validator balance
\* increases by it.
C18_ForfeitCharged ==
    [][(NonZeroSum /\ NextTx.fee.payer # Validator)
         => /\ db'[NextTx.fee.payer] = db[NextTx.fee.payer] - NextTx.fee.amount
            /\ db'[Validator] = db[Validator] + NextTx.fee.amount]_vars

\* The scores do not increase along a batch.
NonIncreasing(b) ==
    \A i, j \in 1..Len(b) : i < j => txs[b[i]].prio >= txs[b[j]].prio

\* C19: a batch grows only by the transaction just extracted, at its end,
\* and that transaction has the highest score of the queue; so the scores
\* are non-increasing along the batch being filled and along every
\* committed batch.
C19_BatchOrder ==
    /\ [][(pc = "loop" /\ batch' # batch)
            => /\ Iteration
               /\ batch' = Append(batch, NextTransaction(txHeap).tx.id)
               /\ \A k \in 1..Len(txHeap) :
                     txHeap[k].prio <= NextTransaction(txHeap).tx.prio]_vars
    /\ [](pc \in {"loop", "send", "commit"} => NonIncreasing(batch))
    /\ [](\A k \in 1..Len(sent) : NonIncreasing(sent[k]))

\* C19 witness: a committed batch of two transactions with different
\* scores, the one that arrived later first.
C19_Witness ==
    \E k \in 1..Len(sent) :
        /\ Len(sent[k]) = 2
        /\ sent[k][1] > sent[k][2]
        /\ txs[sent[k][1]].prio > txs[sent[k][2]].prio

\* C20: while a pass is running the queue changes only by the extraction
\* of its first transaction, which is then no longer in the queue; no
\* transaction is twice in the queue or both in the queue and on the
\* channel, and a deferred transaction goes to the channel and not to the
\* queue.  The queue shrinks by one with every extraction of a pass and
\* never grows during it.
C20_SinglePass ==
    /\ [][pc # "select"
            => \/ txHeap' = txHeap
               \/ /\ pc = "loop"
                  /\ txHeap' = NextTransaction(txHeap).heap
                  /\ Len(txHeap') = Len(txHeap) - 1
                  /\ tx' = NextTransaction(txHeap).tx.id
                  /\ \A k \in 1..Len(txHeap') : txHeap'[k].id # tx']_vars
    /\ [][pc = "send"
            => (txHeap' = txHeap /\ (pc' = "loop" => InSeq(txCh', tx)))]_vars
    /\ [](\A i, j \in 1..Len(txHeap) :
              txHeap[i].id = txHeap[j].id => i = j)
    /\ [](\A k \in 1..Len(txHeap) : ~InSeq(txCh, txHeap[k].id))
    /\ [](pc = "send" => \A k \in 1..Len(txHeap) : txHeap[k].id # tx)

\* C20 witness: a transaction deferred in this pass is back on the channel
\* while the pass goes on with a queue that is not empty.
C20_Witness ==
    /\ pc = "loop" /\ tx # 0 /\ fate[tx] = "chan"
    /\ InSeq(txCh, tx)
    /\ Len(txHeap) > 0

\* The sum of the balances of a ledger.
RECURSIVE Total(_)
Total(accounts) ==
    IF DOMAIN accounts = {} THEN 0
    ELSE LET a == CHOOSE x \in DOMAIN accounts : TRUE
         IN accounts[a]
              + Total([x \in (DOMAIN accounts) \ {a} |-> accounts[x]])

\* Every instruction of every transaction of batch b is an AbsoluteDelta.
AbsoluteOnly(b) ==
    \A k \in 1..Len(b) :
        \A i \in 1..Len(txs[b[k]].instructions) :
            txs[b[k]].instructions[i].kind = "abs"

\* C21: after CommitBatch has committed a batch whose transactions hold
\* only AbsoluteDelta instructions, the sum of the balances of the
\* authoritative ledger is what it was before the commit, whoever paid the
\* fees.
C21_TotalConserved ==
    (pc = "select" /\ passResult = "committed"
        /\ AbsoluteOnly(sent[Len(sent)]))
      => Total(valiDb) = Total(preDb)

====
